---- MODULE Spec2Model ----
(***************************************************************************)
(* A model of himawari8py.py: the retry loops of latestdate and get_tile,  *)
(* the URL scheme of format_url, the fetch/stitch pipeline of get_image    *)
(* and the timestamp generator daterange.                                  *)
(*                                                                         *)
(* Four specifications share the module:                                   *)
(*   SpecCall   one latestdate or get_tile call, one loop iteration a step *)
(*   Spec       one get_image call (pool or sequential), one tile a step   *)
(*   SpecRange  one daterange generator, one next() a step                 *)
(*   SpecSeries one get_images call, its get_image calls run as in Spec    *)
(***************************************************************************)
EXTENDS Integers, Sequences, FiniteSets, TLC

VARIABLES call, img, dr, gis

vars == <<call, img, dr, gis>>

(***************************************************************************)
(* Bounds of the model                                                     *)
(***************************************************************************)
MaxRetries == 2
MaxScale == 2
MaxThreads == 2
MaxSpanSteps == 9

(***************************************************************************)
(* Python values                                                           *)
(***************************************************************************)
\* HTTP status the code tests for
StatusOK == 200
\* The non-success statuses the transport is let to answer with
BadStatuses == {404, 503}

\* str / None / int values of the band argument, tagged by their Python type
BandNone == [tag |-> "none", s |-> <<>>, n |-> 0]
BandStr(s) == [tag |-> "str", s |-> s, n |-> 0]
BandInt(n) == [tag |-> "int", s |-> <<>>, n |-> n]
RGB == <<"R", "G", "B">>

\* Truth value of a Python str: the empty string is false
Truthy(s) == Len(s) > 0

DigitChar(d) == <<"0", "1", "2", "3", "4", "5", "6", "7", "8", "9">>[d + 1]

RECURSIVE IntStr(_)
\* str(n) for n >= 0, as a sequence of characters
IntStr(n) == IF n < 10 THEN <<DigitChar(n)>>
             ELSE Append(IntStr(n \div 10), DigitChar(n % 10))

\* str(v) of a band value
PyStr(band) == IF band.tag = "int" THEN IntStr(band.n)
               ELSE IF band.tag = "str" THEN band.s
               ELSE <<"N", "o", "n", "e">>

RECURSIVE zfill(_, _)
\* s.zfill(width)
zfill(s, width) == IF Len(s) >= width THEN s ELSE zfill(<<"0">> \o s, width)

(***************************************************************************)
(* datetime: an instant is a number of seconds since 00:00:00 of day 0     *)
(***************************************************************************)
DtDay(t) == t \div 86400
DtHour(t) == (t \div 3600) % 24
DtMinute(t) == (t \div 60) % 60
DtSecond(t) == t % 60

\* datetime.datetime(y, m, d, hour, minute, second): ValueError outside range
DatetimeValid(hour, minute, second) ==
    /\ hour \in 0..23
    /\ minute \in 0..59
    /\ second \in 0..59
Datetime(day, hour, minute, second) ==
    day * 86400 + hour * 3600 + minute * 60 + second

\* date.strftime("%Y/%m/%d/%H%M%S"): the day, then HH, MM, SS
strftime(t) == <<DtDay(t), DtHour(t), DtMinute(t), DtSecond(t)>>

\* dateutil.parser.parse of a string written as "dTHH:MM:SS", given by fields
ParseStr(f) == Datetime(f[1], f[2], f[3], f[4])

(***************************************************************************)
(* format_url                                                              *)
(***************************************************************************)
IR_PREFIX == "FULL_24h"
IMAGE == "D531106"
BASE_URL == "https://himawari8-dl.nict.go.jp/himawari8/img"
TileSize == 550

\* band = IMAGE if band == None or 'RGB' else f"{IR_PREFIX}/B{str(band).zfill(2)}"
\* Python reads the condition as (band == None) or 'RGB'.
BandSegment(band) ==
    IF (band.tag = "none") \/ Truthy(RGB)
    THEN [prefix |-> IMAGE, chan |-> <<>>]
    ELSE [prefix |-> IR_PREFIX, chan |-> <<"B">> \o zfill(PyStr(band), 2)]

format_url(x, y, level, date, band) ==
    [base |-> BASE_URL, band |-> BandSegment(band), level |-> level,
     size |-> TileSize, date |-> strftime(date), x |-> x, y |-> y]

(***************************************************************************)
(* One transport answer to session.get, and what the body is worth:        *)
(* raises    the transport raises instead of answering                     *)
(* status    the status code of the response                               *)
(* decodes   Image.open (get_tile) or json/strptime (latestdate) accepts   *)
(*           the body                                                      *)
(* payload   the "date" field of latest.json, as "dTHH:MM:SS" fields       *)
(***************************************************************************)
LatestPayload == <<0, 2, 30, 0>>

Outcome(raises, status, decodes) ==
    [raises |-> raises, status |-> status, decodes |-> decodes,
     payload |-> LatestPayload]

Outcomes ==
    {Outcome(TRUE, 0, FALSE)}
    \cup {Outcome(FALSE, s, FALSE) : s \in BadStatuses}
    \cup {Outcome(FALSE, StatusOK, d) : d \in BOOLEAN}

\* the local variable response before its first assignment
NoResponse == [bound |-> FALSE, status_code |-> 0]
NoError == [type |-> "none", status |-> 0]

\* f"{BASE_URL}/{IMAGE}/latest.json"
LatestUrl == [base |-> BASE_URL, band |-> IMAGE, file |-> "latest.json"]

(***************************************************************************)
(* The frame of one latestdate or get_tile call.                           *)
(*   pc        "loop" inside the for loop, "returned", "raised"            *)
(*   i         iterations of range(retries) consumed                       *)
(*   open      the requests.Session holds transport resources              *)
(*   nreq      session.get calls issued                                    *)
(*   afterClose  a session.get was issued after session.close()            *)
(*   response  the local variable response                                 *)
(*   seen      the transport's answers so far, in order                    *)
(***************************************************************************)
Frame(fn, url, x, y, retries) ==
    [fn |-> fn, pc |-> "loop", i |-> 0, retries |-> retries, url |-> url,
     x |-> x, y |-> y, open |-> TRUE, nreq |-> 0, afterClose |-> FALSE,
     response |-> NoResponse, seen |-> <<>>, ret |-> <<>>, err |-> NoError]

\* lines 60-61: url = format_url(...); session = requests.Session()
get_tile_begin(x, y, level, date, band, retries) ==
    Frame("get_tile", format_url(x, y, level, date, band), x, y, retries)

\* line 30: session = requests.Session()
latestdate_begin(retries) == Frame("latestdate", LatestUrl, 0, 0, retries)

\* the loop with its range one short: range(retries - 1)
LoopDone_short(c) == c.i + 1 >= c.retries

\* for _ in range(retries): the range is used up
LoopDone(c) == c.i >= c.retries

\* session.get(...) at the top of an iteration, answered by o: a request on
\* the session; a closed session opens a new connection pool for it
SessionGet(c, o) ==
    [c EXCEPT !.i = @ + 1, !.nreq = @ + 1, !.afterClose = @ \/ ~c.open,
              !.open = TRUE, !.seen = Append(@, o)]

\* session.close()
SessionClose(c) == [c EXCEPT !.open = FALSE]

\* lines 63-70: one iteration of the loop of get_tile
get_tile_attempt(c, o) ==
    LET sent == SessionGet(c, o)
        got == [sent EXCEPT !.response =
                    [bound |-> TRUE, status_code |-> o.status]]
    IN  IF o.raises THEN sent
        ELSE IF o.status # StatusOK THEN got
        ELSE IF ~o.decodes THEN SessionClose(got)
        ELSE [SessionClose(got) EXCEPT
                 !.pc = "returned",
                 !.ret = <<c.x, c.y, [src |-> c.url]>>]

\* the exhaustion path of get_tile with line 71 (session.close()) left out
get_tile_exhaust_noclose(c) ==
    [c EXCEPT
        !.pc = "raised",
        !.err = IF c.response.bound
                THEN [type |-> "Exception", status |-> c.response.status_code]
                ELSE [type |-> "UnboundLocalError", status |-> 0]]

\* lines 71-72: session.close(); raise Exception(f"... {response.status_code}")
get_tile_exhaust(c) ==
    [SessionClose(c) EXCEPT
        !.pc = "raised",
        !.err = IF c.response.bound
                THEN [type |-> "Exception", status |-> c.response.status_code]
                ELSE [type |-> "UnboundLocalError", status |-> 0]]

\* an iteration of latestdate that returns on any 200, parsed or not
latestdate_attempt_unparsed(c, o) ==
    LET sent == SessionGet(c, o)
        got == [sent EXCEPT !.response =
                    [bound |-> TRUE, status_code |-> o.status]]
    IN  IF o.raises THEN sent
        ELSE IF o.status # StatusOK THEN got
        ELSE [SessionClose(got) EXCEPT
                 !.pc = "returned", !.ret = <<ParseStr(o.payload)>>]

\* lines 32-41: one iteration of the loop of latestdate
latestdate_attempt(c, o) ==
    LET sent == SessionGet(c, o)
        got == [sent EXCEPT !.response =
                    [bound |-> TRUE, status_code |-> o.status]]
    IN  IF o.raises THEN sent
        ELSE IF o.status # StatusOK THEN got
        ELSE IF ~o.decodes THEN got
        ELSE [SessionClose(got) EXCEPT
                 !.pc = "returned", !.ret = <<ParseStr(o.payload)>>]

\* lines 42-43: session.close(); raise Exception("... Connection timed out.")
latestdate_exhaust(c) ==
    [SessionClose(c) EXCEPT
        !.pc = "raised", !.err = [type |-> "Exception", status |-> 0]]

RECURSIVE get_tile(_, _)
\* A whole get_tile call, outs[k] being the transport's answer to request k
get_tile(c, outs) ==
    IF c.pc # "loop" THEN c
    ELSE IF LoopDone(c) THEN get_tile_exhaust(c)
    ELSE get_tile(get_tile_attempt(c, outs[c.i + 1]), outs)

RECURSIVE latestdate(_, _)
\* A whole latestdate call
latestdate(c, outs) ==
    IF c.pc # "loop" THEN c
    ELSE IF LoopDone(c) THEN latestdate_exhaust(c)
    ELSE latestdate(latestdate_attempt(c, outs[c.i + 1]), outs)

\* the answers a call with this retry budget can meet
OutcomeSeqs(retries) == [1..retries -> Outcomes]

\* what the caller of an ended call sees: how it ended, the value returned
\* or the exception raised, and the URL it requested, if it requested at all
\* and whether it left its session open
Ending(c) == [pc |-> c.pc, ret |-> c.ret, err |-> c.err, url |-> c.url,
              requested |-> c.nreq > 0, open |-> c.open]

\* every way a get_tile call can end
get_tile_endings(c) ==
    {Ending(get_tile(c, outs)) : outs \in OutcomeSeqs(c.retries)}

\* every way a latestdate call can end
latestdate_endings(c) ==
    {Ending(latestdate(c, outs)) : outs \in OutcomeSeqs(c.retries)}

(***************************************************************************)
(* Inputs                                                                  *)
(***************************************************************************)
\* "Tile grid size: 1, 2, 4, 8, 16, 20": the two smallest grids
Levels == {1, 2}
Retries == 0..MaxRetries
Bands == {BandNone, BandStr(RGB), BandInt(3), BandInt(13)}
\* instants of day 0: 02:30:00 (published), 02:37:00 and 02:37:30 (not)
Dates == {Datetime(0, 2, 30, 0), Datetime(0, 2, 37, 0), Datetime(0, 2, 37, 30)}

NoCall == Frame("none", LatestUrl, 0, 0, 0)
NoImg == [pc |-> "none", status |-> <<>>]
NoRange == [pc |-> "none"]
NoSeries == [pc |-> "none"]

(***************************************************************************)
(* SpecCall: one call of latestdate or get_tile, an iteration a step       *)
(***************************************************************************)
InitCall ==
    /\ call \in {latestdate_begin(r) : r \in Retries}
           \cup UNION {{get_tile_begin(x, y, l, d, b, r) :
                          x \in 0..(l - 1), y \in 0..(l - 1),
                          d \in Dates, b \in Bands, r \in Retries} :
                        l \in Levels}
    /\ img = NoImg
    /\ dr = NoRange
    /\ gis = NoSeries

GetTileAttempt(o) ==
    /\ call.fn = "get_tile"
    /\ call.pc = "loop"
    /\ ~LoopDone(call)
    /\ call' = get_tile_attempt(call, o)
    /\ UNCHANGED <<img, dr, gis>>

GetTileExhaust ==
    /\ call.fn = "get_tile"
    /\ call.pc = "loop"
    /\ LoopDone(call)
    /\ call' = get_tile_exhaust(call)
    /\ UNCHANGED <<img, dr, gis>>

LatestAttempt(o) ==
    /\ call.fn = "latestdate"
    /\ call.pc = "loop"
    /\ ~LoopDone(call)
    /\ call' = latestdate_attempt(call, o)
    /\ UNCHANGED <<img, dr, gis>>

LatestExhaust ==
    /\ call.fn = "latestdate"
    /\ call.pc = "loop"
    /\ LoopDone(call)
    /\ call' = latestdate_exhaust(call)
    /\ UNCHANGED <<img, dr, gis>>

NextCall ==
    \/ \E o \in Outcomes : GetTileAttempt(o)
    \/ GetTileExhaust
    \/ \E o \in Outcomes : LatestAttempt(o)
    \/ LatestExhaust

SpecCall == InitCall /\ [][NextCall]_vars

(***************************************************************************)
(* get_image                                                               *)
(***************************************************************************)
\* the date argument: None, a datetime, or a string
DateNone == [kind |-> "none", t |-> 0, f |-> <<>>]
DateDt(t) == [kind |-> "datetime", t |-> t, f |-> <<>>]
DateStr(f) == [kind |-> "str", t |-> 0, f |-> f]
DateArgs == {DateNone, DateDt(Datetime(0, 2, 37, 0)), DateStr(<<0, 2, 30, 0>>)}
ImgBands == {BandNone, BandStr(RGB), BandStr(<<"3">>), BandInt(3)}

\* the nthread argument: None, or a number of threads
NthreadNone == [given |-> FALSE, n |-> 0]
Nthread(n) == [given |-> TRUE, n |-> n]

\* lines 214-221 of _parsedate, for a str or a datetime
parsedate_value(d) == IF d.kind = "str" THEN ParseStr(d.f) ELSE d.t

\* zip(range(level), range(level)) repeated, in place of the product
Coord_zip(k, level) == <<(k - 1) % level, (k - 1) % level>>

\* itertools.product(range(level), range(level), ...): x outermost
Coord(k, level) == <<(k - 1) \div level, (k - 1) % level>>
Product(level) == [k \in 1..(level * level) |-> Coord(k, level)]

\* the mode with an else branch that falls back to "RGB"
Mode_default(band) == IF band.tag = "int" THEN "LA" ELSE "RGB"

\* lines 118-121: the mode of the image; "unbound" when no branch assigns it
Mode(band) == IF band.tag = "str" /\ band.s = RGB THEN "RGB"
              ELSE IF band.tag = "int" THEN "LA"
              ELSE "unbound"

\* Image.new(mode, (scale * level, scale * level)): every pixel empty
ImageNew(scale, level) ==
    [p \in (0..(scale * level - 1)) \X (0..(scale * level - 1)) |-> <<>>]

\* the tile resized one pixel too large each way
Resize_oversize(tile, scale) ==
    [q \in (0..scale) \X (0..scale) |-> <<tile, q[1], q[2]>>]

\* tile.resize((scale, scale), Image.BILINEAR): pixel (u, v) of the resized
\* tile, named by the tile it was interpolated from
Resize(tile, scale) ==
    [q \in (0..(scale - 1)) \X (0..(scale - 1)) |-> <<tile, q[1], q[2]>>]

\* the box with its coordinates exchanged
Box_swapped(x, y, scale) == <<y * scale, x * scale>>

\* line 141: box = tuple(n * scale for n in (x, y))
Box(x, y, scale) == <<x * scale, y * scale>>

\* image.paste(im, box): im's pixels over the image's, from box on
Paste(image, im, box) ==
    [p \in DOMAIN image |->
        IF <<p[1] - box[1], p[2] - box[2]>> \in DOMAIN im
        THEN im[<<p[1] - box[1], p[2] - box[2]>>]
        ELSE image[p]]

\* the pool sized by the grid whatever nthread says
PoolSize_grid(a) == a.level * a.level

\* line 126: level * level if nthread is None else nthread
PoolSize(a) == IF a.nthread.given THEN a.nthread.n ELSE a.level * a.level

\* the call of get_tile made for task k
TileCall(g, k) ==
    get_tile_begin(g.tasks[k][1], g.tasks[k][2], g.args.level, g.date,
                   g.args.band, g.args.retries)

(***************************************************************************)
(* The frame of one get_image call.                                        *)
(*   pc        "begin", "pool", "collect", "seq", "stitch", "finish",      *)
(*             "done", "raised"                                            *)
(*   tasks     the coordinates in the order product enumerates them        *)
(*   status    per task: "queued", "running", and once its get_tile ended  *)
(*             "done" (it returned) or "failed" (it raised)                *)
(*   result    the list result                                             *)
(*   pasted    tiles of result pasted so far                               *)
(*   requests  the URLs requested from the tile server                     *)
(*   started   per task: the number of get_tile calls started for it       *)
(*   sessions  the tasks whose requests.Session is open                    *)
(*   pool      "none", "open", "joined"                                    *)
(***************************************************************************)
ImgFrame(a) ==
    [pc |-> "begin", args |-> a, date |-> 0, mode |-> "unbound",
     image |-> <<>>, tasks |-> Product(a.level),
     status |-> [k \in 1..(a.level * a.level) |-> "queued"],
     result |-> <<>>, pasted |-> 0, requests |-> {},
     started |-> [k \in 1..(a.level * a.level) |-> 0], sessions |-> {},
     pool |-> "none", returned |-> <<>>, saved |-> <<>>, err |-> NoError]

ImgArgs ==
    [date : DateArgs, scale : 1..MaxScale, level : Levels, band : ImgBands,
     retries : Retries, multithread : {TRUE},
     nthread : {NthreadNone} \cup {Nthread(n) : n \in 0..MaxThreads},
     save_img : BOOLEAN]
    \cup
    [date : DateArgs, scale : 1..MaxScale, level : Levels, band : ImgBands,
     retries : Retries, multithread : {FALSE}, nthread : {NthreadNone},
     save_img : BOOLEAN]

Init ==
    /\ img \in {ImgFrame(a) : a \in ImgArgs}
    /\ call = NoCall
    /\ dr = NoRange
    /\ gis = NoSeries

\* an exception leaves get_image: the frame's result list and image go with it
Raise(g, err) ==
    [g EXCEPT !.pc = "raised", !.err = err, !.result = <<>>, !.image = <<>>]

\* lines 114-122: the date is resolved, the mode chosen, the image created
BeginWith(g, date) ==
    IF Mode(g.args.band) = "unbound"
    THEN Raise([g EXCEPT !.date = date],
               [type |-> "UnboundLocalError", status |-> 0])
    ELSE [g EXCEPT !.date = date, !.mode = Mode(g.args.band),
                   !.image = ImageNew(g.args.scale, g.args.level),
                   !.pc = IF g.args.multithread THEN "pool" ELSE "seq"]

Begin ==
    /\ img.pc = "begin"
    /\ IF img.args.date.kind # "none"
       THEN img' = BeginWith(img, parsedate_value(img.args.date))
       ELSE \E c \in latestdate_endings(latestdate_begin(img.args.retries)) :
                img' = IF c.pc = "returned" THEN BeginWith(img, c.ret[1])
                       ELSE Raise(img, c.err)
    /\ UNCHANGED <<call, dr, gis>>

\* lines 125-130: the pool is created and the tasks handed to it
PoolStart ==
    /\ img.pc = "pool"
    /\ img' = IF PoolSize(img.args) < 1
              THEN Raise(img, [type |-> "ValueError", status |-> 0])
              ELSE [img EXCEPT !.pc = "collect", !.pool = "open"]
    /\ UNCHANGED <<call, dr, gis>>

Running(g) == {k \in DOMAIN g.status : g.status[k] = "running"}
Queued(g) == {k \in DOMAIN g.status : g.status[k] = "queued"}

\* a free worker thread of the pool takes the next task off the task queue
WorkerTake ==
    /\ img.pool = "open"
    /\ Queued(img) # {}
    /\ Cardinality(Running(img)) < PoolSize(img.args)
    /\ LET k == CHOOSE j \in Queued(img) : \A m \in Queued(img) : j <= m
       IN  img' = [img EXCEPT !.status[k] = "running", !.started[k] = @ + 1,
                              !.sessions = @ \cup {k}]
    /\ UNCHANGED <<call, dr, gis>>

\* task k's get_tile call ended as c: its status, the URL it requested, and
\* its session
Ran(g, k, c) ==
    [g EXCEPT !.status[k] = IF c.pc = "returned" THEN "done" ELSE "failed",
              !.requests = IF c.requested THEN @ \cup {c.url} ELSE @,
              !.sessions = IF c.open THEN @ \cup {k} ELSE @ \ {k}]

\* list() dropping a task that raised instead of raising
Collect_swallow(g, c) ==
    IF g.pc # "collect" THEN g
    ELSE IF c.pc = "returned" THEN [g EXCEPT !.result = Append(@, c.ret)]
    ELSE g

\* line 127: list() takes the next result off imap_unordered; a task that
\* raised raises here
Collect(g, c) ==
    IF g.pc # "collect" THEN g
    ELSE IF c.pc = "returned" THEN [g EXCEPT !.result = Append(@, c.ret)]
    ELSE Raise(g, c.err)

\* a worker runs __get_tile_thread on its task to the end and hands the
\* outcome to the result queue, which list() reads in arrival order
WorkerFinish(k) ==
    /\ img.pool = "open"
    /\ k \in Running(img)
    /\ \E c \in get_tile_endings(TileCall(img, k)) :
           img' = Collect(Ran(img, k, c), c)
    /\ UNCHANGED <<call, dr, gis>>

\* the fetch phase ending with the first tile
FetchComplete_first(g) == Len(g.result) >= 1

\* lines 127 and 136: list() and the for loop end when all level * level
\* results are in
FetchComplete(g) == Len(g.result) = g.args.level * g.args.level

\* lines 131-132 left out: the pool is neither closed nor joined
pool_left_open(g) == g

\* lines 131-132: pool.close(), pool.join(): the worker threads have exited
pool_close_join(g) == [g EXCEPT !.pool = "joined"]

PoolJoin ==
    /\ img.pc = "collect"
    /\ FetchComplete(img)
    /\ img' = [pool_close_join(img) EXCEPT !.pc = "stitch"]
    /\ UNCHANGED <<call, dr, gis>>

\* the sequential loop catching a failed get_tile and going on with a tile
\* in its place
SeqStep_goon(g, c) ==
    LET k == Len(g.result) + 1
        h == Ran([g EXCEPT !.started[k] = @ + 1], k, c)
        got == [h EXCEPT !.result =
                   Append(@, <<g.tasks[k][1], g.tasks[k][2], [src |-> c.url]>>)]
    IN  [got EXCEPT !.pc = IF FetchComplete(got) THEN "stitch" ELSE "seq"]

\* lines 136-138: the next coordinate of the sequential loop
SeqStep(g, c) ==
    LET k == Len(g.result) + 1
        h == Ran([g EXCEPT !.started[k] = @ + 1], k, c)
        got == [h EXCEPT !.result = Append(@, c.ret)]
    IN  IF c.pc # "returned" THEN Raise(h, c.err)
        ELSE [got EXCEPT !.pc = IF FetchComplete(got) THEN "stitch" ELSE "seq"]

SeqFetch ==
    /\ img.pc = "seq"
    /\ \E c \in get_tile_endings(TileCall(img, Len(img.result) + 1)) :
           img' = SeqStep(img, c)
    /\ UNCHANGED <<call, dr, gis>>

\* lines 140-142: one iteration of the stitching loop
PasteTile(g) ==
    LET r == g.result[g.pasted + 1]
    IN  [g EXCEPT !.pasted = @ + 1,
                  !.image = Paste(@, Resize(r[3], g.args.scale),
                                  Box(r[1], r[2], g.args.scale))]

Stitch ==
    /\ img.pc = "stitch"
    /\ img.pasted < Len(img.result)
    /\ img' = PasteTile(img)
    /\ UNCHANGED <<call, dr, gis>>

\* lines 144-147: the image is saved, or returned
Finish ==
    /\ img.pc = "stitch"
    /\ img.pasted = Len(img.result)
    /\ img' = IF img.args.save_img
              THEN [img EXCEPT !.pc = "done", !.saved = <<img.image>>]
              ELSE [img EXCEPT !.pc = "done", !.returned = <<img.image>>]
    /\ UNCHANGED <<call, dr, gis>>

Next ==
    \/ Begin
    \/ PoolStart
    \/ WorkerTake
    \/ \E k \in DOMAIN img.status : WorkerFinish(k)
    \/ PoolJoin
    \/ SeqFetch
    \/ Stitch
    \/ Finish

Spec == Init /\ [][Next]_vars

(***************************************************************************)
(* daterange                                                               *)
(***************************************************************************)
\* round(m / 10) for 0 <= m: Python rounds a half to the even neighbour
PyRoundTenth(m) ==
    LET q == m \div 10
        r == m % 10
    IN  IF r < 5 THEN q
        ELSE IF r > 5 THEN q + 1
        ELSE IF q % 2 = 0 THEN q ELSE q + 1

\* int(total_minutes / increment), total_minutes = seconds / 60, for a span
\* of seconds >= 0 and increment > 0
RangeLen(seconds, increment) == seconds \div (60 * increment)

\* the generator object, before its first next()
RangeFrame(start, finish, increment) ==
    [pc |-> "created", args |-> [start |-> start, finish |-> finish,
                                 increment |-> increment],
     base |-> 0, n |-> 0, i |-> 0, yielded |-> <<>>, err |-> NoError]

\* lines 210-211: the next value of the for loop, or its end
daterange_step(d) ==
    IF d.i < d.n
    THEN [d EXCEPT !.i = @ + 1,
                   !.yielded = Append(@, d.base + d.i * d.args.increment * 60)]
    ELSE [d EXCEPT !.pc = "exhausted"]

\* the generator without the test of finish against start
daterange_enter_nocheck(d) ==
    LET start == parsedate_value(d.args.start)
        finish == parsedate_value(d.args.finish)
        minute == PyRoundTenth(DtMinute(start)) * 10
    IN  IF ~DatetimeValid(DtHour(start), minute, 0)
        THEN [d EXCEPT !.pc = "raised",
                       !.err = [type |-> "ValueError", status |-> 0]]
        ELSE [d EXCEPT !.pc = "loop",
                       !.base = Datetime(DtDay(start), DtHour(start), minute, 0),
                       !.n = RangeLen(finish - start, d.args.increment)]

\* lines 200-209, run by the first next(), up to the for loop
daterange_enter(d) ==
    LET start == parsedate_value(d.args.start)
        finish == parsedate_value(d.args.finish)
        minute == PyRoundTenth(DtMinute(start)) * 10
    IN  IF finish < start
        THEN [d EXCEPT !.pc = "raised",
                       !.err = [type |-> "Exception", status |-> 0]]
        ELSE IF ~DatetimeValid(DtHour(start), minute, 0)
        THEN [d EXCEPT !.pc = "raised",
                       !.err = [type |-> "ValueError", status |-> 0]]
        ELSE [d EXCEPT !.pc = "loop",
                       !.base = Datetime(DtDay(start), DtHour(start), minute, 0),
                       !.n = RangeLen(finish - start, d.args.increment)]

Increments == {10, 15}
\* starts: every minute of 00:00-00:59 of day 1, on the minute or half past it
RangeStarts == {Datetime(1, 0, m, sec) : m \in 0..59, sec \in {0, 30}}
\* finish lies from five minutes before start to MaxSpanSteps * 5 after it
RangeArgs ==
    {<<DateStr(strftime(t)), DateStr(strftime(t + 300 * k)), inc>> :
        t \in RangeStarts, k \in -1..MaxSpanSteps, inc \in Increments}

InitRange ==
    /\ dr \in {RangeFrame(a[1], a[2], a[3]) : a \in RangeArgs}
    /\ call = NoCall
    /\ img = NoImg
    /\ gis = NoSeries

\* the first next() on the generator
RangeFirst ==
    /\ dr.pc = "created"
    /\ LET d == daterange_enter(dr)
       IN  dr' = IF d.pc = "loop" THEN daterange_step(d) ELSE d
    /\ UNCHANGED <<call, img, gis>>

\* a later next()
RangeNext ==
    /\ dr.pc = "loop"
    /\ dr' = daterange_step(dr)
    /\ UNCHANGED <<call, img, gis>>

NextRange == RangeFirst \/ RangeNext

SpecRange == InitRange /\ [][NextRange]_vars

(***************************************************************************)
(* get_images                                                              *)
(***************************************************************************)
\* def daterange(start, finish, increment=10)
DefaultIncrement == 10

\* line 172: the generator daterange(start, finish) the comprehension runs
series_range(a) == RangeFrame(a.start, a.finish, DefaultIncrement)

(***************************************************************************)
(* The frame of one get_images call.                                       *)
(*   pc        "start", "dates" (the comprehension of line 172 draws from  *)
(*             the generator dr), "call" (about to call get_image or to    *)
(*             return), "wait" (inside get_image), "returned", "raised"    *)
(*   dates     the list dates                                              *)
(*   k         the index in dates of the get_image call made or due        *)
(*   images    the values the get_image calls returned                     *)
(*   built     the dates of the get_image calls that returned              *)
(*   requested the URLs requested by the get_image calls that returned     *)
(*   failed    the index in dates of the get_image call that raised, or 0  *)
(*   overlap   a get_image call was made while a tile fetch of an earlier  *)
(*             one had not ended                                           *)
(***************************************************************************)
SeriesFrame(a) ==
    [pc |-> "start", args |-> a, dates |-> <<>>, k |-> 0, images |-> <<>>,
     built |-> <<>>, requested |-> {}, failed |-> 0, overlap |-> FALSE,
     err |-> NoError]

\* lines 173-185: the arguments of the get_image call for date
SeriesImgArgs(a, date) ==
    [date |-> DateDt(date), scale |-> a.scale, level |-> a.level,
     band |-> a.band, retries |-> a.retries, multithread |-> a.multithread,
     nthread |-> a.nthread, save_img |-> a.save_img]

\* tile fetches of the call g that have not ended
Unfinished(g) == IF g.pc = "none" THEN {} ELSE Running(g) \cup Queued(g)

\* line 172: the generator d has ended; its exception leaves get_images,
\* else what it yielded is the list dates
series_dates(gs, d) ==
    IF d.pc = "raised" THEN [gs EXCEPT !.pc = "raised", !.err = d.err]
    ELSE [gs EXCEPT !.pc = "call", !.dates = d.yielded, !.k = 1]

\* the list comprehension going on to the next date when get_image raised
series_result_skip(gs, g) ==
    [gs EXCEPT !.pc = "call", !.k = @ + 1,
               !.failed = IF g.pc = "raised" /\ @ = 0 THEN gs.k ELSE @,
               !.images = Append(@, g.returned),
               !.built = Append(@, g.date),
               !.requested = @ \cup g.requests]

\* lines 173-186: the get_image call for dates[k] ended as g: its value joins
\* the list, or its exception leaves get_images
series_result(gs, g) ==
    IF g.pc = "raised"
    THEN [gs EXCEPT !.pc = "raised", !.err = g.err, !.failed = gs.k]
    ELSE [gs EXCEPT !.pc = "call", !.k = @ + 1,
                    !.images = Append(@, g.returned),
                    !.built = Append(@, g.date),
                    !.requested = @ \cup g.requests]

\* starts 00:00, 00:07 and 00:56 of day 1
SeriesStarts == {Datetime(1, 0, 0, 0), Datetime(1, 0, 7, 0), Datetime(1, 0, 56, 0)}
\* finish, in seconds after start: before it, at it, 10 and 20 minutes later
SeriesSpans == {-300, 0, 600, 1200}
SeriesArgs ==
    {[start |-> DateStr(strftime(t)), finish |-> DateDt(t + d), scale |-> 1,
      level |-> l, band |-> BandStr(RGB), retries |-> r, multithread |-> m,
      nthread |-> NthreadNone, save_img |-> sv] :
        t \in SeriesStarts, d \in SeriesSpans, l \in Levels, r \in Retries,
        m \in BOOLEAN, sv \in BOOLEAN}

InitSeries ==
    /\ gis \in {SeriesFrame(a) : a \in SeriesArgs}
    /\ img = NoImg
    /\ call = NoCall
    /\ dr = NoRange

\* line 172: daterange(start, finish) is called
SeriesStart ==
    /\ gis.pc = "start"
    /\ dr' = series_range(gis.args)
    /\ gis' = [gis EXCEPT !.pc = "dates"]
    /\ UNCHANGED <<call, img>>

\* line 172: the generator has ended
SeriesDates ==
    /\ gis.pc = "dates"
    /\ dr.pc \in {"raised", "exhausted"}
    /\ gis' = series_dates(gis, dr)
    /\ UNCHANGED <<call, img, dr>>

\* get_image is called for the next date
SeriesCall ==
    /\ gis.pc = "call"
    /\ gis.k <= Len(gis.dates)
    /\ img' = ImgFrame(SeriesImgArgs(gis.args, gis.dates[gis.k]))
    /\ gis' = [gis EXCEPT !.pc = "wait",
                          !.overlap = @ \/ Unfinished(img) # {}]
    /\ UNCHANGED <<call, dr>>

\* the get_image call has ended
SeriesResume ==
    /\ gis.pc = "wait"
    /\ img.pc \in {"done", "raised"}
    /\ gis' = series_result(gis, img)
    /\ UNCHANGED <<call, img, dr>>

\* the list is complete and returned
SeriesReturn ==
    /\ gis.pc = "call"
    /\ gis.k > Len(gis.dates)
    /\ gis' = [gis EXCEPT !.pc = "returned"]
    /\ UNCHANGED <<call, img, dr>>

NextSeries ==
    \/ SeriesStart
    \/ NextRange
    \/ SeriesDates
    \/ SeriesCall
    \/ SeriesResume
    \/ SeriesReturn
    \/ (img.pc # "none" /\ Next)

SpecSeries == InitSeries /\ [][NextSeries]_vars

(***************************************************************************)
(* Properties of one call (SpecCall)                                       *)
(***************************************************************************)
IsBadStatus(o) == ~o.raises /\ o.status # StatusOK
IsSuccess(o) == ~o.raises /\ o.status = StatusOK /\ o.decodes
AllBadStatus(c) == \A k \in 1..Len(c.seen) : IsBadStatus(c.seen[k])
Ended(c) == c.pc \in {"returned", "raised"}

\* C3: a get_tile call whose transport answers every request with a
\* non-success status never returns a tile, never issues more than `retries`
\* requests, and has issued exactly `retries` requests when it fails.
C3_ExactRetries ==
    (call.fn = "get_tile" /\ AllBadStatus(call)) =>
        /\ call.pc # "returned"
        /\ call.nreq <= call.retries
        /\ call.nreq = Len(call.seen)
        /\ (call.pc = "raised" => call.nreq = call.retries)

C3_Witness ==
    /\ call.fn = "get_tile"
    /\ call.pc = "raised"
    /\ call.retries >= 2
    /\ AllBadStatus(call)
    /\ call.nreq = call.retries

\* the status of the last response the call received, 0 when it received none
RECURSIVE LastStatus(_)
LastStatus(seen) ==
    IF seen = <<>> THEN 0
    ELSE IF ~seen[Len(seen)].raises THEN seen[Len(seen)].status
    ELSE LastStatus(SubSeq(seen, 1, Len(seen) - 1))

\* C9: whatever the per-attempt answers (non-success status, transport
\* exception, undecodable body), get_tile returns exactly at the first attempt
\* that gets a success status and decodes, and when none of the `retries`
\* attempts does it fails with the fetch error (the Exception of line 72)
\* carrying the last observed status.
C9_UniformRetry ==
    (call.fn = "get_tile" /\ call.retries >= 1) =>
        /\ (call.pc = "returned" =>
               /\ IsSuccess(call.seen[Len(call.seen)])
               /\ \A k \in 1..(Len(call.seen) - 1) : ~IsSuccess(call.seen[k])
               /\ call.ret = <<call.x, call.y, [src |-> call.url]>>)
        /\ (call.pc = "raised" =>
               /\ Len(call.seen) = call.retries
               /\ \A k \in 1..Len(call.seen) : ~IsSuccess(call.seen[k])
               /\ call.err.type = "Exception"
               /\ call.err.status = LastStatus(call.seen))

\* C10: a get_tile or latestdate call that has ended, by return or by raise,
\* has released its session.
C10_SessionReleased ==
    (call.fn \in {"get_tile", "latestdate"} /\ Ended(call)) => ~call.open

\* a get_tile call that closed its session, used it again, and then ran out
\* of retries
C10_Witness ==
    /\ call.fn = "get_tile"
    /\ call.pc = "raised"
    /\ call.afterClose
    /\ ~call.open

\* C12: latestdate issues at most `retries` requests; a non-success status,
\* a transport exception and an unparsable date are each retried; it returns
\* the parsed date of the first attempt that succeeds, at that attempt; and
\* it raises only when all `retries` attempts have failed.
C12_LatestRetry ==
    call.fn = "latestdate" =>
        /\ call.nreq <= call.retries
        /\ call.nreq = Len(call.seen)
        /\ \A k \in 1..(Len(call.seen) - 1) : ~IsSuccess(call.seen[k])
        /\ (call.pc = "loop" => \A k \in 1..Len(call.seen) : ~IsSuccess(call.seen[k]))
        /\ (call.pc = "returned" =>
               /\ IsSuccess(call.seen[Len(call.seen)])
               /\ call.ret = <<ParseStr(call.seen[Len(call.seen)].payload)>>)
        /\ (call.pc = "raised" =>
               /\ Len(call.seen) = call.retries
               /\ \A k \in 1..Len(call.seen) : ~IsSuccess(call.seen[k])
               /\ call.err.type = "Exception")

\* latestdate returned the date of its second answer after an unparsable first
C12_Witness ==
    /\ call.fn = "latestdate"
    /\ call.pc = "returned"
    /\ call.nreq = 2
    /\ ~call.seen[1].raises /\ call.seen[1].status = StatusOK
    /\ ~call.seen[1].decodes

\* C18: within a get_tile call no request is issued on the session after
\* session.close() has been called on it.
C18_NoRequestAfterClose ==
    call.fn = "get_tile" => ~call.afterClose

(***************************************************************************)
(* Properties of one get_image call (Spec)                                 *)
(***************************************************************************)
Grid(g) == (0..(g.args.level - 1)) \X (0..(g.args.level - 1))
FetchSucceeded(g) == g.pc \in {"stitch", "done"}
Failed(g) == {k \in DOMAIN g.status : g.status[k] = "failed"}
\* the indices of result holding a tile for coordinate xy
Holding(g, xy) == {k \in 1..Len(g.result) : <<g.result[k][1], g.result[k][2]>> = xy}
InOrder(g) == \A k \in 1..Len(g.result) :
                 <<g.result[k][1], g.result[k][2]>> = g.tasks[k]

\* C1: once the fetch phase of get_image has succeeded, result holds
\* level * level tiles, exactly one for every coordinate of the grid.
C1_GridComplete ==
    FetchSucceeded(img) =>
        /\ Len(img.result) = img.args.level * img.args.level
        /\ \A xy \in Grid(img) : Cardinality(Holding(img, xy)) = 1

\* the pool delivered all four tiles of a 2 x 2 grid out of order
C1_Witness ==
    /\ FetchSucceeded(img)
    /\ img.args.multithread
    /\ img.args.level = 2
    /\ img.args.retries >= 2
    /\ ~InOrder(img)

\* C2: when a tile fetch of the call has exhausted its retries, get_image
\* has ended with an error: it returned no image and saved no file.
C2_NoPartialComposite ==
    Failed(img) # {} =>
        /\ img.pc = "raised"
        /\ img.returned = <<>>
        /\ img.saved = <<>>
        /\ img.pasted = 0

\* one fetch of a pooled 2 x 2 call failed while another had succeeded
C2_Witness ==
    /\ Failed(img) # {}
    /\ img.pc = "raised"
    /\ img.args.multithread
    /\ img.args.save_img
    /\ \E k \in DOMAIN img.status : img.status[k] = "done"
    /\ \E k \in DOMAIN img.status : img.status[k] = "running"

\* C4: a pixel of the image is pasted only after every one of the
\* level * level fetches has ended with a decoded tile.
C4_PasteAfterAll ==
    (img.pasted > 0 \/ \E p \in DOMAIN img.image : img.image[p] # <<>>) =>
        /\ \A k \in DOMAIN img.status : img.status[k] = "done"
        /\ Len(img.result) = img.args.level * img.args.level

\* the first tile of a pooled 2 x 2 call has been pasted
C4_Witness ==
    /\ img.pc = "stitch"
    /\ img.pasted = 1
    /\ img.args.multithread
    /\ img.args.level = 2
    /\ ~InOrder(img)

\* the image a finished call hands over: the return value, or the file
Composite(g) == IF g.args.save_img THEN g.saved[1] ELSE g.returned[1]

\* C5: in the composed image the scale x scale block at (x * scale,
\* y * scale) is the resized tile served for the URL of coordinate (x, y).
C5_Placement ==
    img.pc = "done" =>
        \A xy \in Grid(img) :
            \A u \in 0..(img.args.scale - 1), v \in 0..(img.args.scale - 1) :
                Composite(img)[<<xy[1] * img.args.scale + u,
                                 xy[2] * img.args.scale + v>>]
                  = <<[src |-> format_url(xy[1], xy[2], img.args.level,
                                          img.date, img.args.band)], u, v>>

\* a 2 x 2 image at scale 2 composed from tiles that arrived out of order
C5_Witness ==
    /\ img.pc = "done"
    /\ img.args.level = 2
    /\ img.args.scale = 2
    /\ img.args.multithread
    /\ ~InOrder(img)

\* C7: every tile request of get_image uses a timestamp whose minutes are
\* a multiple of 10 and whose seconds are zero: the requested date
\* truncated down to the publication increment.
C7_AlignedRequests ==
    \A u \in img.requests : u.date[3] % 10 = 0 /\ u.date[4] = 0

\* C8: the band segment of every tile URL follows the band argument: the
\* true-colour identifier for "RGB", "FULL_24h/B" and the band zero-padded to
\* two digits for an integer band.
C8_BandPath ==
    \A u \in img.requests :
        /\ (img.args.band = BandStr(RGB) =>
               u.band = [prefix |-> IMAGE, chan |-> <<>>])
        /\ (img.args.band.tag = "int" =>
               u.band = [prefix |-> IR_PREFIX,
                         chan |-> <<"B", DigitChar(img.args.band.n \div 10),
                                    DigitChar(img.args.band.n % 10)>>])

(***************************************************************************)
(* Properties of daterange (SpecRange)                                     *)
(***************************************************************************)
RangeStart(d) == parsedate_value(d.args.start)
RangeFinish(d) == parsedate_value(d.args.finish)
\* start with its minutes cut down to a multiple of increment, seconds zero
Truncated(t, increment) ==
    Datetime(DtDay(t), DtHour(t), DtMinute(t) - (DtMinute(t) % increment), 0)
\* floor((finish - start in minutes) / increment)
ExpectedCount(d) == (RangeFinish(d) - RangeStart(d)) \div (60 * d.args.increment)
ExpectedAt(d, k) ==
    Truncated(RangeStart(d), d.args.increment) + (k - 1) * d.args.increment * 60

\* C6: for finish >= start daterange does not fail, each timestamp it
\* yields is the k-th of the sequence that starts at start truncated down to
\* a multiple of increment and steps by increment, and when it is exhausted
\* it has yielded floor((finish - start in minutes) / increment) of them.
C6_RangeTruncation ==
    (dr.pc # "none" /\ RangeFinish(dr) >= RangeStart(dr)) =>
        /\ dr.pc # "raised"
        /\ \A k \in 1..Len(dr.yielded) : dr.yielded[k] = ExpectedAt(dr, k)
        /\ (dr.pc = "exhausted" => Len(dr.yielded) = ExpectedCount(dr))

(***************************************************************************)
(* More properties of one get_image call (Spec)                            *)
(***************************************************************************)
\* the URL get_image requests for task k
TaskUrl(g, k) == format_url(g.tasks[k][1], g.tasks[k][2], g.args.level,
                            g.date, g.args.band)
NoOutput(g) == g.returned = <<>> /\ g.saved = <<>>
ValidBand(band) == band = BandStr(RGB) \/ band.tag = "int"

\* the tiles of result pasted onto image in the order the coordinates are
\* enumerated, from task k on
RECURSIVE PasteInOrder(_, _, _)
PasteInOrder(g, image, k) ==
    IF k > Len(g.tasks) THEN image
    ELSE LET j == CHOOSE m \in 1..Len(g.result) :
                      <<g.result[m][1], g.result[m][2]>> = g.tasks[k]
             r == g.result[j]
         IN  PasteInOrder(g, Paste(image, Resize(r[3], g.args.scale),
                                   Box(r[1], r[2], g.args.scale)), k + 1)

\* C14: the image get_image hands over is the image obtained by pasting the
\* same tiles in the order the coordinates are enumerated (the order of the
\* sequential mode), whatever order they arrived and were pasted in.
C14_OrderIndependent ==
    img.pc = "done" =>
        Composite(img) =
            PasteInOrder(img, ImageNew(img.args.scale, img.args.level), 1)

\* a saved 2 x 2 image whose tiles arrived last coordinate first
C14_Witness ==
    /\ img.pc = "done"
    /\ img.args.save_img
    /\ img.args.multithread
    /\ img.args.level = 2
    /\ <<img.result[1][1], img.result[1][2]>> = <<1, 1>>
    /\ <<img.result[4][1], img.result[4][2]>> = <<0, 0>>

\* C15: in multithread mode no more get_tile calls are in flight than the
\* pool has threads (nthread when given, level * level otherwise), no task is
\* started twice, and when the fetch phase has succeeded every task was run
\* once.
C15_PoolBound ==
    (img.pc # "none" /\ img.args.multithread) =>
        /\ Cardinality(Running(img)) <=
               (IF img.args.nthread.given THEN img.args.nthread.n
                ELSE img.args.level * img.args.level)
        /\ \A k \in DOMAIN img.started : img.started[k] <= 1
        /\ (FetchSucceeded(img) =>
               \A k \in DOMAIN img.started :
                   img.started[k] = 1 /\ img.status[k] = "done")

\* a pool of one thread has run the four fetches of a 2 x 2 grid
C15_Witness ==
    /\ img.args.multithread
    /\ img.args.nthread = Nthread(1)
    /\ img.args.level = 2
    /\ FetchSucceeded(img)

\* C16: in sequential mode, once the get_tile of a coordinate has raised, no
\* get_tile is started and no URL is requested for a later coordinate.
C16_SequentialStops ==
    (img.pc # "none" /\ ~img.args.multithread) =>
        \A k \in Failed(img) :
            /\ img.pc = "raised"
            /\ \A j \in DOMAIN img.status :
                   j > k => /\ img.started[j] = 0
                            /\ img.status[j] = "queued"
                            /\ TaskUrl(img, j) \notin img.requests

\* the second of four sequential fetches failed after the first succeeded
C16_Witness ==
    /\ ~img.args.multithread
    /\ img.args.level = 2
    /\ img.args.retries >= 1
    /\ img.status[1] = "done"
    /\ img.status[2] = "failed"
    /\ TaskUrl(img, 2) \in img.requests

\* C17: when get_image has returned normally in multithread mode the pool is
\* closed and joined, no get_tile of the call is running and no session of
\* the call is open.
C17_PoolJoined ==
    (img.pc = "done" /\ img.args.multithread) =>
        /\ img.pool = "joined"
        /\ Running(img) = {}
        /\ Queued(img) = {}
        /\ img.sessions = {}

\* a pooled 2 x 2 call with a capped pool has returned its image
C17_Witness ==
    /\ img.pc = "done"
    /\ img.args.multithread
    /\ img.args.nthread = Nthread(2)
    /\ img.args.level = 2
    /\ ~img.args.save_img
    /\ img.returned # <<>>

\* C19: a get_image call whose band is neither "RGB" nor an integer raises
\* before it starts a get_tile, requests a tile, or returns or saves an image.
C19_InvalidBand ==
    (img.pc # "none" /\ ~ValidBand(img.args.band)) =>
        /\ img.pc \in {"begin", "raised"}
        /\ img.requests = {}
        /\ \A k \in DOMAIN img.started : img.started[k] = 0
        /\ NoOutput(img)

\* band None with date None: the latest date was fetched, then line 122 raised
C19_Witness ==
    /\ img.pc = "raised"
    /\ img.args.band = BandNone
    /\ img.args.date = DateNone
    /\ img.err.type = "UnboundLocalError"

(***************************************************************************)
(* Properties of one get_images call (SpecSeries)                          *)
(***************************************************************************)
Reversed(a) == parsedate_value(a.finish) < parsedate_value(a.start)
RangeError == [type |-> "Exception", status |-> 0]
\* every URL requested so far by the get_image calls of the series
SeriesRequests == gis.requested \cup (IF img.pc = "none" THEN {} ELSE img.requests)
\* the dates a URL of the series may carry when get_image call k is the last
DatesUpTo(k) == {strftime(gis.dates[j]) : j \in 1..k}

\* C13: with finish earlier than start the generator daterange raises the
\* Exception of line 204 without yielding a timestamp, and get_images ends
\* with that exception: the list dates stays empty, get_image is never
\* called and no URL is requested.
C13_ReversedRange ==
    (gis.pc # "none" /\ Reversed(gis.args)) =>
        /\ gis.pc \in {"start", "dates", "raised"}
        /\ dr.pc \in {"none", "created", "raised"}
        /\ dr.pc # "none" => dr.yielded = <<>>
        /\ dr.pc = "raised" => dr.err = RangeError
        /\ gis.pc = "raised" => dr.pc = "raised" /\ gis.err = RangeError
        /\ gis.dates = <<>> /\ gis.images = <<>>
        /\ img = NoImg
        /\ SeriesRequests = {}

C13_Witness ==
    /\ gis.pc = "raised"
    /\ Reversed(gis.args)
    /\ dr.pc = "raised"
    /\ gis.err = RangeError

\* C11: get_images calls get_image once for every timestamp of the list
\* dates, in the order of the list; a get_image call is made only when no
\* tile fetch of an earlier one is unfinished, every URL requested carries
\* the date of the current or an earlier call, the list returned has one
\* entry per timestamp, and when the get_image call of a timestamp raises,
\* get_images raises and requests no URL of a later timestamp.
C11_OneAfterAnother ==
    gis.pc \in {"call", "wait", "returned", "raised"} =>
        /\ ~gis.overlap
        /\ gis.pc # "raised" => gis.dates = dr.yielded
        /\ gis.built = SubSeq(gis.dates, 1, Len(gis.built))
        /\ Len(gis.images) = Len(gis.built)
        /\ gis.pc = "wait" =>
               /\ gis.k = Len(gis.built) + 1
               /\ img.pc \notin {"none", "begin"} => img.date = gis.dates[gis.k]
        /\ gis.pc \in {"call", "returned"} =>
               /\ gis.k = Len(gis.built) + 1
               /\ Unfinished(img) = {}
        /\ gis.pc = "returned" => gis.built = gis.dates
        /\ gis.pc # "raised" => gis.failed = 0
        /\ (img.pc = "raised" /\ gis.pc # "wait") => gis.pc = "raised"
        /\ gis.failed > 0 =>
               /\ gis.pc = "raised"
               /\ gis.k = gis.failed
               /\ Len(gis.built) = gis.failed - 1
        /\ SeriesRequests \subseteq
               {u \in SeriesRequests :
                   u.date \in DatesUpTo(IF gis.k > Len(gis.dates)
                                        THEN Len(gis.dates) ELSE gis.k)}

\* the second get_image call of a series failed after the first returned,
\* with tiles of both dates requested
C11_Witness ==
    /\ gis.pc = "raised"
    /\ gis.failed = 2
    /\ Len(gis.dates) = 2
    /\ Len(gis.built) = 1
    /\ \E u \in SeriesRequests : u.date = strftime(gis.dates[1])
    /\ \E u \in SeriesRequests : u.date = strftime(gis.dates[2])

====
